---- MODULE Spec2Model ----
(***************************************************************************)
(* SPEMS: payment compliance engine.                                       *)
(*                                                                         *)
(* The access gate (middleware/auth.js authenticate), the payment routes   *)
(* (POST/PUT/DELETE /api/payments, POST /api/payments/check-and-remind)    *)
(* and the daily payment scheduler (checkAndRemindPayments) over one       *)
(* user_payments table.                                                    *)
(*                                                                         *)
(* Time is counted in ticks of half a day since 00:00 UTC of 1 December;   *)
(* the server's zone is tz ticks east of UTC.  Timestamps (paid_at, now)   *)
(* are UTC ticks, DATE values (payment_month) are day numbers.             *)
(***************************************************************************)
EXTENDS Integers, Sequences, FiniteSets, TLC

\* ------------------------------------------------------------------------
\* Bounds of the model
\* ------------------------------------------------------------------------
MaxAdvances == 1
MaxPosts == 1
MaxEdits == 1
MaxRuns == 2
MaxFailures == 1
MaxProjects == 1
MaxTasks == 1
MaxTransactions == 1
MaxTicks == 31

\* ------------------------------------------------------------------------
\* Program constants
\* ------------------------------------------------------------------------
MonthlyFee == 15000
BlockWindowDays == 30
PreBlockDays == 2
TicksPerDay == 2

NULL == -1
NoMethod == "none"
DefaultMethod == "MOMO"
Undefined == "undefined"

\* users table: three registered users
Users == {1, 2, 3}
Roles == {"admin", "staff"}

\* ------------------------------------------------------------------------
\* Calendar: day 0 is 1 December, months are numbered from 1 (December)
\* ------------------------------------------------------------------------
MonthStart == <<0, 31, 62, 90, 121, 151, 182, 212>>
MonthIdx(d) == CHOOSE m \in 1..(Len(MonthStart) - 1) :
                  MonthStart[m] <= d /\ d < MonthStart[m + 1]

TimeZones == {-1, 0, 1}

VARIABLES
  now,        \* the clock, UTC ticks
  tz,         \* offset of the server's local time from UTC, in ticks
  approved,   \* users.approve_user
  role,       \* users.role
  payments,   \* the rows of user_payments
  nextId,     \* the SERIAL sequence of user_payments.id
  gate,       \* outcome of the authenticate call being answered
  req,        \* the administrative payment request in flight
  posts,      \* POST /api/payments requests started so far
  edits,      \* PUT and DELETE /api/payments/:id requests started so far
  advances,   \* clock advances so far
  batch,      \* the two batch runs: locals and position of each
  runs,       \* batch runs started so far
  failures,   \* data-store and mail failures injected so far
  projects,   \* the rows of projects
  tasks,      \* the rows of tasks
  transactions, \* the rows of transactions
  serial,     \* the SERIAL sequences of projects, tasks and transactions
  response,   \* the response to the last project, task or transaction request
  calls,      \* the transaction requests in flight: locals and position of each
  registered, \* the ids of the rows of users
  upcomingBlockMails \* upcoming-block reminder mails delivered, per user

\* Date.getDate()/getMonth() work on local time
LocalDay(t) == (t + tz) \div TicksPerDay
\* setHours(0, 0, 0, 0) on local day d, as a UTC timestamp
LocalMidnight(d) == d * TicksPerDay - tz
\* toISOString().split('T')[0]: the UTC date of a timestamp
ISODate(t) == t \div TicksPerDay
\* new Date('YYYY-MM-DD'): midnight UTC of the date
ParseDate(d) == d * TicksPerDay
\* a DATE column read back by the driver: local midnight of the date
DateToJs(d) == LocalMidnight(d)

\* d.setDate(1); d.setHours(0,0,0,0); d.toISOString().split('T')[0]
FirstOfMonthStr(t) == ISODate(LocalMidnight(MonthStart[MonthIdx(LocalDay(t))]))

\* d.setMonth(d.getMonth() - 1); d.setHours(0, 0, 0, 0)
\* (a day-of-month past the end of the previous month overflows forward)
OneMonthAgo(t) ==
  LET d == LocalDay(t)
      m == MonthIdx(d)
  IN LocalMidnight(MonthStart[m - 1] + (d - MonthStart[m]))

getFirstDayOfMonth(dateString) ==
  FirstOfMonthStr(ParseDate(dateString))

\* ------------------------------------------------------------------------
\* Queries on user_payments
\* ------------------------------------------------------------------------
\* WHERE user_id = u AND status = 'paid' AND paid_at IS NOT NULL
\*   AND paid_at >= bound
PaidSince(store, u, bound) ==
  {p \in store : p.user_id = u /\ p.status = "paid"
                  /\ p.paid_at # NULL /\ p.paid_at >= bound}
\* ... ORDER BY paid_at DESC LIMIT 1 (ties in any order)
Latest(rows) == {p \in rows : \A q \in rows : q.paid_at <= p.paid_at}
\* WHERE user_id = u AND payment_month = m
ForMonth(store, u, m) == {p \in store : p.user_id = u /\ p.payment_month = m}
ById(store, id) == {p \in store : p.id = id}

NoRow == [id |-> 0]
NoGate == [outcome |-> "none"]
NoReq == [op |-> "none"]
NoResponse == [status |-> 0]
NoSerial == [projects |-> 0, tasks |-> 0, transactions |-> 0]
\* two requests can be in progress at once
Calls == {1, 2}
IdleCall == [pc |-> "idle"]

\* ------------------------------------------------------------------------
\* Access gate
\* ------------------------------------------------------------------------
GatePaymentOk(store, u, t) == PaidSince(store, u, OneMonthAgo(t)) # {}

\* authenticate without the admin exemption of the payment check
AuthOutcomeNoExemption(tok, u, fail) ==
  IF tok = "none" THEN "401 no token"
  ELSE IF tok = "bad" THEN "401 invalid token"
  ELSE IF fail THEN "401 invalid token"
  ELSE IF ~approved[u] THEN "403 not approved"
  ELSE IF ~GatePaymentOk(payments, u, now) THEN "403 payment required"
  ELSE "next"

\* authenticate letting the request through when a query fails
AuthOutcomeFailOpen(tok, u, fail) ==
  IF tok = "none" THEN "401 no token"
  ELSE IF tok = "bad" THEN "401 invalid token"
  ELSE IF fail THEN "next"
  ELSE IF ~approved[u] THEN "403 not approved"
  ELSE IF role[u] # "admin" /\ ~GatePaymentOk(payments, u, now)
       THEN "403 payment required"
  ELSE "next"

AuthOutcome(tok, u, fail) ==
  IF tok = "none" THEN "401 no token"
  ELSE IF tok = "bad" THEN "401 invalid token"
  ELSE IF fail THEN "401 invalid token"
  ELSE IF ~approved[u] THEN "403 not approved"
  ELSE IF role[u] # "admin" /\ ~GatePaymentOk(payments, u, now)
       THEN "403 payment required"
  ELSE "next"

vars == <<now, tz, approved, role, payments, nextId, gate, req, posts, edits, advances,
          batch, runs, failures, projects, tasks, transactions, serial, response,
          calls, registered, upcomingBlockMails>>

\* authenticate resetting the stale paid records it looks for
AuthenticateResetting(u, tok, fail) ==
  /\ gate = NoGate
  /\ gate' = [outcome |-> AuthOutcome(tok, u, fail), user |-> u,
              token |-> tok, failed |-> fail]
  /\ payments' = {IF p.user_id = u /\ p.status = "paid"
                     /\ p.paid_at < OneMonthAgo(now)
                  THEN [p EXCEPT !.status = "unpaid", !.paid_at = NULL]
                  ELSE p : p \in payments}
  /\ UNCHANGED <<now, tz, approved, role, nextId, req, posts, edits, advances,
                 batch, runs, failures,
                 projects, tasks, transactions, serial, response, calls, registered,
                 upcomingBlockMails>>

Authenticate(u, tok, fail) ==
  /\ gate = NoGate
  /\ gate' = [outcome |-> AuthOutcome(tok, u, fail), user |-> u,
              token |-> tok, failed |-> fail]
  /\ UNCHANGED <<now, tz, approved, role, payments, nextId, req, posts, edits, advances,
                 batch, runs, failures,
                 projects, tasks, transactions, serial, response, calls, registered,
                 upcomingBlockMails>>

\* ------------------------------------------------------------------------
\* POST /api/auth/login, approve-user and reject-user
\* ------------------------------------------------------------------------
\* login that skips the approval check
LoginOutcomeNoApproval(u, pwOk, fail) ==
  IF fail THEN "500"
  ELSE IF ~pwOk THEN "401 invalid credentials"
  ELSE "200 token"

\* the user is looked up by email (every user of Users exists), approval
\* is checked before the password; a failed lookup goes to the error
\* handler of the application
LoginOutcome(u, pwOk, fail) ==
  IF fail THEN "500"
  ELSE IF ~approved[u] THEN "403 pending approval"
  ELSE IF ~pwOk THEN "401 invalid credentials"
  ELSE "200 token"

Login(u, pwOk, fail) ==
  /\ gate = NoGate
  /\ gate' = [outcome |-> LoginOutcome(u, pwOk, fail), user |-> u,
              token |-> "login", failed |-> fail]
  /\ UNCHANGED <<now, tz, approved, role, payments, nextId, req, posts, edits, advances,
                 batch, runs, failures,
                 projects, tasks, transactions, serial, response, calls, registered,
                 upcomingBlockMails>>

\* UPDATE users SET approve_user = <value> WHERE id = $1
SetApproval(u, value) ==
  /\ req = NoReq
  /\ approved' = [approved EXCEPT ![u] = value]
  /\ gate' = NoGate
  /\ UNCHANGED <<now, tz, role, payments, nextId, req, posts, edits, advances,
                 batch, runs, failures,
                 projects, tasks, transactions, serial, response, calls, registered,
                 upcomingBlockMails>>

ApproveUser(u) == SetApproval(u, TRUE)

RejectUser(u) == SetApproval(u, FALSE)

\* ------------------------------------------------------------------------
\* Writes on user_payments
\* ------------------------------------------------------------------------
\* the constraint unique_user_month on (user_id, payment_month)
UniqueViolation(store, u, m, id) ==
  \E p \in store : p.user_id = u /\ p.payment_month = m /\ p.id # id

NewRow(id, u, amt, m, st, meth, paid) ==
  [id |-> id, user_id |-> u, amount |-> amt, payment_month |-> m,
   status |-> st, payment_method |-> meth, paid_at |-> paid]

\* UPDATE user_payments SET status = 'unpaid', paid_at = NULL WHERE id = $1
ResetRow(store, id) ==
  {IF p.id = id THEN [p EXCEPT !.status = "unpaid", !.paid_at = NULL] ELSE p
     : p \in store}

\* ------------------------------------------------------------------------
\* The batch runs: the scheduled one (cron) and the on-demand one (route)
\* ------------------------------------------------------------------------
Batches == {"cron", "route"}
Running == {"recent", "existing", "mutate", "send", "preblock",
            "done", "aborted"}

IdleRun ==
  [pc |-> "idle", oneMonthAgo |-> 0, currentMonthStr |-> 0, users |-> <<>>,
   i |-> 0, recent |-> NoRow, existing |-> NoRow, needsReminder |-> FALSE,
   remindersSent |-> 0, upcomingBlockRemindersSent |-> 0,
   paymentsCreated |-> 0, paymentsUpdated |-> 0,
   dueCalls |-> {}, preCalls |-> {}, error |-> "none",
   alone |-> FALSE, second |-> FALSE]

\* history: a run is alone while nothing but its own steps has touched the
\* store or the clock and no call of it has failed
Disturbed(bs, except) ==
  [b \in Batches |-> IF b \in except THEN bs[b]
                     ELSE [bs[b] EXCEPT !.alone = FALSE]]

\* the run has logged or answered its counts and returns
BatchReturn(b) ==
  /\ batch[b].pc \in {"done", "aborted"}
  /\ batch' = [batch EXCEPT ![b] = [IdleRun EXCEPT !.alone = batch[b].alone]]
  /\ gate' = NoGate
  /\ UNCHANGED <<now, tz, approved, role, payments, nextId, req, posts, edits, advances,
                 runs, failures,
                 projects, tasks, transactions, serial, response, calls, registered,
                 upcomingBlockMails>>

\* SELECT ... FROM users, without the WHERE clause
BatchUsersAll == Users
\* SELECT ... FROM users WHERE approve_user = true AND role != 'admin'
BatchUsers == {u \in Users : approved[u] /\ role[u] # "admin"}
Orderings(S) ==
  {sq \in [1..Cardinality(S) -> S] : \A i, j \in DOMAIN sq : sq[i] = sq[j] => i = j}
\* ... ORDER BY id (the on-demand route only)
ById_Order(S) == {sq \in Orderings(S) : \A i, j \in DOMAIN sq : i < j => sq[i] < sq[j]}
UserOrders(b) == IF b = "route" THEN ById_Order(BatchUsers) ELSE Orderings(BatchUsers)

\* utils/emailService.js exports no sendUpcomingBlockReminderEmail: the name
\* the scheduler imports is undefined and calling it throws a TypeError
UpcomingBlockSenderExported == FALSE

OtherRunning(b) == \E o \in Batches \ {b} : batch[o].pc \in Running
Fails(fail) == fail => failures < MaxFailures
Count(fail) == failures' = IF fail THEN failures + 1 ELSE failures

\* the outer catch of checkAndRemindPayments / asyncHandler's next(err),
\* reached by the error e
Aborted(r, e) ==
  [r EXCEPT !.pc = "aborted", !.recent = NoRow, !.existing = NoRow,
            !.needsReminder = FALSE, !.error = e, !.alone = FALSE]

\* the end of one pass of the for loop
NextUser(r) ==
  IF r.i < Len(r.users)
  THEN [r EXCEPT !.pc = "recent", !.i = r.i + 1, !.recent = NoRow,
                 !.existing = NoRow, !.needsReminder = FALSE]
  ELSE [r EXCEPT !.pc = "done", !.recent = NoRow, !.existing = NoRow,
                 !.needsReminder = FALSE]

\* what follows the due reminder: the scheduler goes on to the upcoming
\* block reminder, the route to the next user
AfterSend(b, r) == IF b = "cron" THEN [r EXCEPT !.pc = "preblock"] ELSE NextUser(r)

BatchStart(b, order, fail) ==
  /\ batch[b].pc \notin Running
  /\ runs < MaxRuns
  /\ Fails(fail) /\ Count(fail)
  /\ runs' = runs + 1
  /\ gate' = NoGate
  /\ LET r == [IdleRun EXCEPT
                 !.oneMonthAgo = OneMonthAgo(now),
                 !.currentMonthStr = FirstOfMonthStr(now),
                 !.users = order,
                 !.alone = ~OtherRunning(b),
                 !.second = /\ ~OtherRunning(b)
                            /\ \E o \in Batches : batch[o].alone]
     IN batch' = [batch EXCEPT ![b] =
                    IF fail THEN Aborted([r EXCEPT !.users = <<>>], "query failed")
                    ELSE IF Len(order) = 0 THEN [r EXCEPT !.pc = "done"]
                    ELSE [r EXCEPT !.pc = "recent", !.i = 1]]
  /\ UNCHANGED <<now, tz, approved, role, payments, nextId, req, posts, edits, advances,
                 projects, tasks, transactions, serial, response, calls, registered,
                 upcomingBlockMails>>

BatchReadRecent(b, fail) ==
  /\ batch[b].pc = "recent"
  /\ Fails(fail) /\ Count(fail)
  /\ gate' = NoGate
  /\ LET r == batch[b]
         rows == Latest(PaidSince(payments, r.users[r.i], r.oneMonthAgo))
     IN IF fail THEN batch' = [batch EXCEPT ![b] = Aborted(r, "query failed")]
        ELSE \E row \in (IF rows = {} THEN {NoRow} ELSE rows) :
               batch' = [batch EXCEPT ![b] =
                           [r EXCEPT !.pc = "existing", !.recent = row]]
  /\ UNCHANGED <<now, tz, approved, role, payments, nextId, req, posts, edits, advances,
                 runs,
                 projects, tasks, transactions, serial, response, calls, registered,
                 upcomingBlockMails>>

BatchReadExisting(b, fail) ==
  /\ batch[b].pc = "existing"
  /\ Fails(fail) /\ Count(fail)
  /\ gate' = NoGate
  /\ LET r == batch[b]
         rows == ForMonth(payments, r.users[r.i], r.currentMonthStr)
     IN IF fail THEN batch' = [batch EXCEPT ![b] = Aborted(r, "query failed")]
        ELSE \E row \in (IF rows = {} THEN {NoRow} ELSE rows) :
               batch' = [batch EXCEPT ![b] =
                           [r EXCEPT !.pc = "mutate", !.existing = row]]
  /\ UNCHANGED <<now, tz, approved, role, payments, nextId, req, posts, edits, advances,
                 runs,
                 projects, tasks, transactions, serial, response, calls, registered,
                 upcomingBlockMails>>

\* The branches between the two reads and the reminder: which statement is
\* issued, and needsReminder after it succeeded (needs) or after the INSERT
\* threw (needsOnError)

\* no paid record since oneMonthAgo, and the stale paid record is left alone
EvaluateNoRecentNoReset(existing, oneMonthAgo) ==
  IF existing # NoRow
  THEN [op |-> "none", needs |-> TRUE, needsOnError |-> TRUE]
  ELSE [op |-> "insert", needs |-> TRUE, needsOnError |-> TRUE]

\* no paid record since oneMonthAgo
EvaluateNoRecent(existing, oneMonthAgo) ==
  IF existing # NoRow
  THEN IF /\ existing.status = "paid"
          /\ existing.paid_at # NULL
          /\ existing.paid_at < oneMonthAgo
       THEN [op |-> "reset", needs |-> TRUE, needsOnError |-> TRUE]
       ELSE [op |-> "none", needs |-> TRUE, needsOnError |-> TRUE]
  ELSE [op |-> "insert", needs |-> TRUE, needsOnError |-> TRUE]

EvaluateOtherMonthNoCreate(existing, oneMonthAgo) ==
  IF existing # NoRow
  THEN IF existing.status = "paid"
       THEN IF existing.paid_at = NULL \/ existing.paid_at < oneMonthAgo
            THEN [op |-> "reset", needs |-> TRUE, needsOnError |-> FALSE]
            ELSE [op |-> "none", needs |-> FALSE, needsOnError |-> FALSE]
       ELSE IF existing.status = "unpaid"
       THEN [op |-> "none", needs |-> TRUE, needsOnError |-> FALSE]
       ELSE [op |-> "none", needs |-> FALSE, needsOnError |-> FALSE]
  ELSE [op |-> "none", needs |-> FALSE, needsOnError |-> FALSE]

\* the last paid record is not for the current month
EvaluateOtherMonth(existing, oneMonthAgo) ==
  IF existing # NoRow
  THEN IF existing.status = "paid"
       THEN IF existing.paid_at = NULL \/ existing.paid_at < oneMonthAgo
            THEN [op |-> "reset", needs |-> TRUE, needsOnError |-> FALSE]
            ELSE [op |-> "none", needs |-> FALSE, needsOnError |-> FALSE]
       ELSE IF existing.status = "unpaid"
       THEN [op |-> "none", needs |-> TRUE, needsOnError |-> FALSE]
       ELSE [op |-> "none", needs |-> FALSE, needsOnError |-> FALSE]
  ELSE [op |-> "insert", needs |-> TRUE, needsOnError |-> FALSE]

\* the last paid record is for the current month
EvaluateSameMonth(recent, existing, oneMonthAgo) ==
  IF /\ recent.paid_at # NULL
     /\ recent.paid_at < oneMonthAgo
     /\ existing # NoRow
  THEN [op |-> "reset", needs |-> TRUE, needsOnError |-> FALSE]
  ELSE [op |-> "none", needs |-> FALSE, needsOnError |-> FALSE]

Evaluate(recent, existing, oneMonthAgo, currentMonthStr) ==
  IF recent = NoRow
  THEN EvaluateNoRecent(existing, oneMonthAgo)
  ELSE IF FirstOfMonthStr(DateToJs(recent.payment_month)) # currentMonthStr
  THEN EvaluateOtherMonth(existing, oneMonthAgo)
  ELSE EvaluateSameMonth(recent, existing, oneMonthAgo)

\* INSERT INTO user_payments (user_id, amount, payment_month, status)
\* VALUES ($1, 15000, $2, 'unpaid')
BatchRow(id, u, m) == NewRow(id, u, MonthlyFee, m, "unpaid", NoMethod, NULL)

\* the INSERT of the loop in its try/catch: a unique violation and any
\* other error are caught there
InsertResultUncaught(conflict, fail) ==
  IF conflict \/ fail THEN "thrown" ELSE "inserted"

InsertResult(conflict, fail) ==
  IF conflict \/ fail THEN "caught" ELSE "inserted"

\* does the pass go on to sendPaymentReminderEmail
Remind(b, r, needs) ==
  IF needs THEN [r EXCEPT !.pc = "send", !.needsReminder = TRUE]
  ELSE AfterSend(b, r)

BatchMutate(b, fail) ==
  /\ batch[b].pc = "mutate"
  /\ Fails(fail) /\ Count(fail)
  /\ gate' = NoGate
  /\ LET r == batch[b]
         u == r.users[r.i]
         ev == Evaluate(r.recent, r.existing, r.oneMonthAgo, r.currentMonthStr)
     IN CASE ev.op = "none" ->
               /\ ~fail
               /\ batch' = [batch EXCEPT ![b] = Remind(b, r, ev.needs)]
               /\ UNCHANGED <<payments, nextId>>
          [] ev.op = "reset" ->
               IF fail
               THEN /\ batch' = [batch EXCEPT ![b] = Aborted(r, "query failed")]
                    /\ UNCHANGED <<payments, nextId>>
               ELSE /\ payments' = ResetRow(payments, r.existing.id)
                    /\ nextId' = nextId
                    /\ batch' = [Disturbed(batch, {b}) EXCEPT ![b] =
                         Remind(b, [r EXCEPT !.paymentsUpdated = @ + 1],
                                ev.needs)]
          [] ev.op = "insert" ->
               LET conflict ==
                     UniqueViolation(payments, u, r.currentMonthStr, 0)
                   res == InsertResult(conflict, fail)
               IN /\ nextId' = nextId + 1
                  /\ CASE res = "inserted" ->
                            /\ payments' = payments \cup
                                 {BatchRow(nextId, u, r.currentMonthStr)}
                            /\ batch' = [Disturbed(batch, {b}) EXCEPT ![b] =
                                 Remind(b, [r EXCEPT !.paymentsCreated = @ + 1],
                                        ev.needs)]
                       [] res = "caught" ->
                            /\ payments' = payments
                            /\ batch' = [batch EXCEPT ![b] =
                                 Remind(b, [r EXCEPT !.alone = @ /\ ~fail],
                                        ev.needsOnError)]
                       [] res = "thrown" ->
                            /\ payments' = payments
                            /\ batch' = [batch EXCEPT ![b] =
                                 Aborted(r, IF conflict THEN "unique_user_month"
                                            ELSE "query failed")]
  /\ UNCHANGED <<now, tz, approved, role, req, posts, edits, advances, runs,
                 projects, tasks, transactions, serial, response, calls, registered,
                 upcomingBlockMails>>

\* sendPaymentReminderEmail outside any try/catch
BatchSendUncaught(b, fail) ==
  /\ batch[b].pc = "send"
  /\ Fails(fail) /\ Count(fail)
  /\ gate' = NoGate
  /\ LET r == batch[b]
         sent == [r EXCEPT !.dueCalls = @ \cup {r.users[r.i]},
                           !.remindersSent = IF fail THEN @ ELSE @ + 1,
                           !.alone = @ /\ ~fail]
     IN batch' = [batch EXCEPT ![b] = IF fail THEN Aborted(sent, "send failed")
                                      ELSE AfterSend(b, sent)]
  /\ UNCHANGED <<now, tz, approved, role, payments, nextId, req, posts, edits, advances,
                 runs,
                 projects, tasks, transactions, serial, response, calls, registered,
                 upcomingBlockMails>>

\* sendPaymentReminderEmail in its try/catch
BatchSend(b, fail) ==
  /\ batch[b].pc = "send"
  /\ Fails(fail) /\ Count(fail)
  /\ gate' = NoGate
  /\ LET r == batch[b]
         sent == [r EXCEPT !.dueCalls = @ \cup {r.users[r.i]},
                           !.remindersSent = IF fail THEN @ ELSE @ + 1,
                           !.alone = @ /\ ~fail]
     IN batch' = [batch EXCEPT ![b] = AfterSend(b, sent)]
  /\ UNCHANGED <<now, tz, approved, role, payments, nextId, req, posts, edits, advances,
                 runs,
                 projects, tasks, transactions, serial, response, calls, registered,
                 upcomingBlockMails>>

\* Math.ceil((paidAt + 30 days - today's midnight) / 1 day)
DaysUntilBlock(paidAt, t) ==
  LET blockDate == paidAt + BlockWindowDays * TicksPerDay
      today == LocalMidnight(LocalDay(t))
      diffMs == blockDate - today
  IN (diffMs + TicksPerDay - 1) \div TicksPerDay

\* the most recent paid record of any age
LastPaidAny(store, u) == Latest(PaidSince(store, u, 0))

\* the upcoming block reminder of the scheduler
BatchPreBlock(b, fail) ==
  /\ batch[b].pc = "preblock"
  /\ Fails(fail) /\ Count(fail)
  /\ gate' = NoGate
  /\ LET r == batch[b]
         u == r.users[r.i]
         lastPaidAny == LastPaidAny(payments, u)
     IN IF fail
        THEN /\ batch' = [batch EXCEPT ![b] = Aborted(r, "query failed")]
             /\ UNCHANGED upcomingBlockMails
        ELSE IF lastPaidAny = {}
        THEN /\ batch' = [batch EXCEPT ![b] = NextUser(r)]
             /\ UNCHANGED upcomingBlockMails
        ELSE \E row \in lastPaidAny :
               IF DaysUntilBlock(row.paid_at, now) = PreBlockDays
               THEN /\ batch' = [batch EXCEPT ![b] = NextUser(
                         [r EXCEPT !.preCalls = @ \cup {u},
                                   !.upcomingBlockRemindersSent =
                                      IF UpcomingBlockSenderExported
                                      THEN @ + 1 ELSE @])]
                    /\ upcomingBlockMails' =
                         IF UpcomingBlockSenderExported
                         THEN [upcomingBlockMails EXCEPT ![u] = @ + 1]
                         ELSE upcomingBlockMails
               ELSE /\ batch' = [batch EXCEPT ![b] = NextUser(r)]
                    /\ UNCHANGED upcomingBlockMails
  /\ UNCHANGED <<now, tz, approved, role, payments, nextId, req, posts, edits, advances,
                 runs,
                 projects, tasks, transactions, serial, response, calls, registered>>

\* ------------------------------------------------------------------------
\* POST /api/payments (admin): create the record of a user and month, or
\* update it when it exists
\* ------------------------------------------------------------------------
Statuses == {"paid", "unpaid", "late"}
StatusInputs == Statuses \cup {Undefined}
Amounts == {20000}
\* user_id values an admin sends: the admin's own and one staff user's
PostUsers == {1, 2}
\* payment_month strings an admin sends: the 15th of the current month and
\* the 15th of the next month
DateInputs(t) ==
  LET m == MonthIdx(LocalDay(t))
  IN {MonthStart[m] + 14, MonthStart[m + 1] + 14}

PostStart(u, amt, pm, st) ==
  /\ req = NoReq
  /\ posts < MaxPosts
  /\ posts' = posts + 1
  /\ gate' = NoGate
  /\ LET normalizedMonth == getFirstDayOfMonth(pm)
         existingCheck == ForMonth(payments, u, normalizedMonth)
     IN IF u \notin registered
        THEN req' = NoReq      \* 404 User not found
        ELSE IF role[u] = "admin"
        THEN req' = NoReq      \* 400 Cannot create payment records for admin
        ELSE \E e \in (IF existingCheck = {} THEN {NoRow} ELSE existingCheck) :
               req' = [op |-> "post", user_id |-> u, amount |-> amt,
                       month |-> normalizedMonth, status |-> st,
                       existing |-> e]
  /\ UNCHANGED <<now, tz, approved, role, payments, nextId, edits, advances, batch,
                 runs, failures,
                 projects, tasks, transactions, serial, response, calls, registered,
                 upcomingBlockMails>>

\* status || existingPayment.status || 'unpaid'
PostStatus(st, e) == IF st # Undefined THEN st ELSE e.status
\* payment_method || existingPayment.payment_method || defaultMethod
PostMethod(e) ==
  IF e.payment_method # NoMethod THEN e.payment_method ELSE DefaultMethod
\* newPaidAt of the update branch
PostNewPaidAt(st, e, t) ==
  IF st = "paid" THEN t
  ELSE IF st = "unpaid" THEN NULL
  ELSE e.paid_at
\* paidAt of the insert branch
PostPaidAt(st, t) == IF st = "paid" THEN t ELSE NULL

\* the request that has written its record goes on to
\* sendPaymentStatusUpdateEmail when notify holds, and answers otherwise
AfterWrite(notify) == IF notify THEN [op |-> "mail"] ELSE NoReq

PostWrite ==
  /\ req.op = "post"
  /\ gate' = NoGate
  /\ IF req.existing # NoRow
     THEN /\ req' = AfterWrite(/\ req.status # Undefined
                               /\ req.status # req.existing.status)
          /\ payments' =
               {IF p.id = req.existing.id
                THEN [p EXCEPT !.amount = req.amount,
                               !.status = PostStatus(req.status, req.existing),
                               !.payment_method = PostMethod(req.existing),
                               !.paid_at = PostNewPaidAt(req.status,
                                                        req.existing, now)]
                ELSE p : p \in payments}
          /\ nextId' = nextId
     ELSE /\ nextId' = nextId + 1
          /\ IF UniqueViolation(payments, req.user_id, req.month, 0)
             THEN /\ payments' = payments       \* the INSERT throws: 500
                  /\ req' = NoReq
             ELSE /\ req' = AfterWrite(req.status # Undefined)
                  /\ payments' = payments \cup
                    {NewRow(nextId, req.user_id, req.amount, req.month,
                            IF req.status # Undefined THEN req.status
                            ELSE "unpaid",
                            DefaultMethod, PostPaidAt(req.status, now))}
  /\ batch' = Disturbed(batch, {})
  /\ UNCHANGED <<now, tz, approved, role, posts, edits, advances, runs, failures,
                 projects, tasks, transactions, serial, response, calls, registered,
                 upcomingBlockMails>>

\* ------------------------------------------------------------------------
\* PUT /api/payments/:id (admin)
\* ------------------------------------------------------------------------
PutStart(id, st, pm) ==
  /\ req = NoReq
  /\ edits < MaxEdits
  /\ edits' = edits + 1
  /\ gate' = NoGate
  /\ LET currentPayment == ById(payments, id)
     IN IF currentPayment = {}
        THEN req' = NoReq                          \* 404 Payment not found
        ELSE LET cur == CHOOSE p \in currentPayment : TRUE
                 normalizedMonth ==
                   IF pm = NULL THEN NULL ELSE getFirstDayOfMonth(pm)
             IN IF /\ pm # NULL
                   /\ UniqueViolation(payments, cur.user_id,
                                      normalizedMonth, id)
                THEN req' = NoReq   \* 400 Payment already exists
                ELSE IF /\ st = Undefined
                        /\ cur.payment_method # NoMethod
                        /\ pm = NULL
                THEN req' = NoReq   \* 400 No fields to update
                ELSE req' = [op |-> "put", id |-> id, status |-> st,
                             month |-> normalizedMonth, current |-> cur]
  /\ UNCHANGED <<now, tz, approved, role, payments, nextId, posts, advances, batch,
                 runs, failures,
                 projects, tasks, transactions, serial, response, calls, registered,
                 upcomingBlockMails>>

\* the paid_at written by PUT, given the status read before the update
PutPaidAt(st, cur, old, t) ==
  IF st = "paid" /\ cur.status # "paid" THEN t
  ELSE IF st = "unpaid" /\ cur.status = "paid" THEN NULL
  ELSE old

PutRow(p, r, t) ==
  [p EXCEPT !.status = IF r.status # Undefined THEN r.status ELSE @,
            !.payment_method = IF r.current.payment_method = NoMethod
                               THEN DefaultMethod ELSE @,
            !.payment_month = IF r.month # NULL THEN r.month ELSE @,
            !.paid_at = PutPaidAt(r.status, r.current, @, t)]

PutWrite ==
  /\ req.op = "put"
  /\ gate' = NoGate
  /\ IF /\ req.month # NULL
        /\ UniqueViolation(payments, req.current.user_id, req.month, req.id)
     THEN /\ payments' = payments               \* the UPDATE throws: 500
          /\ req' = NoReq
     ELSE /\ payments' = {IF p.id = req.id THEN PutRow(p, req, now) ELSE p
                            : p \in payments}
          /\ req' = AfterWrite(/\ req.status # Undefined
                               /\ req.status # req.current.status)
  /\ batch' = Disturbed(batch, {})
  /\ UNCHANGED <<now, tz, approved, role, nextId, posts, edits, advances, runs, failures,
                 projects, tasks, transactions, serial, response, calls, registered,
                 upcomingBlockMails>>

\* sendPaymentStatusUpdateEmail in its try/catch (PUT: with the SELECT of
\* the user's address), then the success response
StatusMail(fail) ==
  /\ req.op = "mail"
  /\ Fails(fail) /\ Count(fail)
  /\ req' = NoReq
  /\ gate' = NoGate
  /\ UNCHANGED <<now, tz, approved, role, payments, nextId, posts, edits,
                 advances, batch, runs,
                 projects, tasks, transactions, serial, response, calls, registered,
                 upcomingBlockMails>>

\* ------------------------------------------------------------------------
\* DELETE /api/payments/:id (admin)
\* ------------------------------------------------------------------------
DeletePayment(id) ==
  /\ req = NoReq
  /\ edits < MaxEdits
  /\ ById(payments, id) # {}
  /\ edits' = edits + 1
  /\ gate' = NoGate
  /\ payments' = {p \in payments : p.id # id}
  /\ batch' = Disturbed(batch, {})
  /\ UNCHANGED <<now, tz, approved, role, nextId, req, posts, advances, runs,
                 failures,
                 projects, tasks, transactions, serial, response, calls, registered,
                 upcomingBlockMails>>

\* ------------------------------------------------------------------------
\* PUT /api/users/:id (admin): role = COALESCE($4, role)
\* ------------------------------------------------------------------------
PutUser(id, r) ==
  /\ req = NoReq
  /\ edits < MaxEdits
  /\ edits' = edits + 1
  /\ gate' = NoGate
  /\ role' = [role EXCEPT ![id] = r]
  /\ UNCHANGED <<now, tz, approved, payments, nextId, req, posts, advances,
                 batch, runs, failures,
                 projects, tasks, transactions, serial, response, calls, registered,
                 upcomingBlockMails>>

\* ------------------------------------------------------------------------
\* DELETE /api/users/:id (admin, not on the admin's own account); the rows
\* of user_payments and projects reference the user ON DELETE CASCADE, and
\* tasks and transactions reference the project ON DELETE CASCADE
\* ------------------------------------------------------------------------
DeleteUser(admin, id) ==
  /\ req = NoReq
  /\ edits < MaxEdits
  /\ admin \in registered /\ role[admin] = "admin" /\ approved[admin]
  /\ id \in registered
  /\ id # admin
  /\ edits' = edits + 1
  /\ gate' = NoGate
  /\ registered' = registered \ {id}
  /\ payments' = {p \in payments : p.user_id # id}
  /\ LET kept == {p \in projects : p.user_id # id}
     IN /\ projects' = kept
        /\ tasks' = {t \in tasks : \E p \in kept : p.id = t.project_id}
        /\ transactions' =
             {x \in transactions : \E p \in kept : p.id = x.project_id}
  /\ batch' = Disturbed(batch, {})
  /\ UNCHANGED <<now, tz, approved, role, nextId, req, posts, advances, runs,
                 failures, serial, response, calls,
                 upcomingBlockMails>>

PaymentIds == {p.id : p \in payments} \cup {nextId}

\* the clock starts on 27 February at 12:00 UTC and advances by
\* 10 days, 28 days or 29 days
StartTimes == {ParseDate(88) + 1}
Steps == {10 * TicksPerDay, 28 * TicksPerDay, 29 * TicksPerDay}

\* the store is empty; user 1 is the admin, users 2 and 3 are staff and
\* every user is approved
Init ==
  /\ now \in StartTimes
  /\ tz \in TimeZones
  /\ approved = [u \in Users |-> TRUE]
  /\ role = [u \in Users |-> IF u = 1 THEN "admin" ELSE "staff"]
  /\ payments = {}
  /\ nextId = 1
  /\ gate = NoGate
  /\ req = NoReq
  /\ posts = 0
  /\ edits = 0
  /\ advances = 0
  /\ batch = [b \in Batches |-> IdleRun]
  /\ runs = 0
  /\ failures = 0
  /\ projects = {}
  /\ tasks = {}
  /\ transactions = {}
  /\ serial = NoSerial
  /\ response = NoResponse
  /\ calls = [c \in Calls |-> IdleCall]
  /\ registered = Users
  /\ upcomingBlockMails = [u \in Users |-> 0]

\* the same, with user 3 registered and not yet approved
InitPending ==
  /\ now \in StartTimes
  /\ tz \in TimeZones
  /\ approved = [u \in Users |-> u # 3]
  /\ role = [u \in Users |-> IF u = 1 THEN "admin" ELSE "staff"]
  /\ payments = {}
  /\ nextId = 1
  /\ gate = NoGate
  /\ req = NoReq
  /\ posts = 0
  /\ edits = 0
  /\ advances = 0
  /\ batch = [b \in Batches |-> IdleRun]
  /\ runs = 0
  /\ failures = 0
  /\ projects = {}
  /\ tasks = {}
  /\ transactions = {}
  /\ serial = NoSerial
  /\ response = NoResponse
  /\ calls = [c \in Calls |-> IdleCall]
  /\ registered = Users
  /\ upcomingBlockMails = [u \in Users |-> 0]

\* no handler is in progress
Quiet == req = NoReq /\ \A b \in Batches : batch[b].pc \notin Running

\* days pass between the executions of handlers; a handler runs within
\* one tick of the clock
Advance(d) ==
  /\ advances < MaxAdvances
  /\ Quiet
  /\ now' = now + d
  /\ advances' = advances + 1
  /\ gate' = NoGate
  /\ batch' = Disturbed(batch, {})
  /\ UNCHANGED <<tz, approved, role, payments, nextId, req, posts, edits, runs,
                 failures, projects, tasks, transactions, serial, response, calls, registered,
                 upcomingBlockMails>>

GateStep ==
  \E u \in Users, tok \in {"none", "bad", "good"}, fail \in BOOLEAN :
    (fail => tok = "good") /\ Authenticate(u, tok, fail)

LoginRequest ==
  \E u \in Users, pwOk \in BOOLEAN, fail \in BOOLEAN : Login(u, pwOk, fail)

ApproveRequest == \E u \in Users : ApproveUser(u)

RejectRequest == \E u \in Users : RejectUser(u)

PostRequest ==
  \E u \in PostUsers, amt \in Amounts, pm \in DateInputs(now),
     st \in StatusInputs : PostStart(u, amt, pm, st)

PutRequest ==
  \E id \in PaymentIds, st \in StatusInputs,
     pm \in DateInputs(now) \cup {NULL} : PutStart(id, st, pm)

DeleteRequest == \E id \in PaymentIds : DeletePayment(id)

DeleteUserRequest == \E admin \in Users, id \in Users : DeleteUser(admin, id)

RoleRequest == \E id \in Users, r \in Roles : PutUser(id, r)

ClockStep == \E d \in Steps : Advance(d)

MailStep == \E fail \in BOOLEAN : StatusMail(fail)

BatchBegin(b) ==
  \E fail \in BOOLEAN, order \in UserOrders(b) : BatchStart(b, order, fail)

BatchStep(b) ==
  \E fail \in BOOLEAN :
    \/ BatchReadRecent(b, fail)
    \/ BatchReadExisting(b, fail)
    \/ BatchMutate(b, fail)
    \/ BatchSend(b, fail)
    \/ b = "cron" /\ BatchPreBlock(b, fail)
    \/ ~fail /\ BatchReturn(b)

\* ------------------------------------------------------------------------
\* Projects, tasks and transactions
\* ------------------------------------------------------------------------
Types == {"income", "expense"}
ProjectNames == {"a", "b"}
WorkAmounts == {5, 10}
ProjectIds == 1..MaxProjects
TaskIds == 1..MaxTasks
TransactionIds == 1..MaxTransactions

payVars == <<now, tz, approved, role, payments, nextId, gate, req, posts, edits,
             advances, batch, runs, failures, registered, upcomingBlockMails>>

\* every route is mounted behind authenticate: the handler runs when the
\* gate calls next(), with req.user.id and req.user.role of that user
Authenticated(u) == AuthOutcome("good", u, FALSE) = "next"

\* a handler that lets every user through
AccessDeniedNever(r, owner, userId) == FALSE

\* role !== 'admin' && project.user_id !== userId
AccessDenied(r, owner, userId) == r # "admin" /\ owner # userId

ProjectById(id) == {p \in projects : p.id = id}
TaskById(id) == {t \in tasks : t.id = id}
TransactionById(id) == {x \in transactions : x.id = id}
\* projects.user_id of an existing project
ProjectOwner(projectId) == (CHOOSE p \in projects : p.id = projectId).user_id
\* ... p.user_id as project_owner_id FROM tasks t JOIN projects p ...
TaskOwner(id) == ProjectOwner((CHOOSE t \in tasks : t.id = id).project_id)
TransactionOwner(id) ==
  ProjectOwner((CHOOSE x \in transactions : x.id = id).project_id)

checkProjectAccess(projectId, userId, r) ==
  IF ProjectById(projectId) = {} THEN FALSE
  ELSE ~AccessDenied(r, ProjectOwner(projectId), userId)

RECURSIVE SumAmounts(_)
\* COALESCE(SUM(amount), 0) over rows [id, amount]
SumAmounts(rows) ==
  IF rows = {} THEN 0
  ELSE LET r == CHOOSE r \in rows : TRUE
       IN r.amount + SumAmounts(rows \ {r})

updateProjectTotals(ps, ts, xs, projectId) ==
  LET total(type) ==
        SumAmounts({[id |-> x.id, amount |-> x.amount] :
                      x \in {x \in xs : x.project_id = projectId /\ x.type = type}})
        + SumAmounts({[id |-> t.id, amount |-> t.cost] :
                        t \in {t \in ts : t.project_id = projectId /\ t.type = type}})
  IN {IF p.id = projectId
      THEN [p EXCEPT !.total_income = total("income"),
                     !.total_expense = total("expense")]
      ELSE p : p \in ps}

Reply(status, u, kind, op, id, rows) ==
  [status |-> status, actor |-> u, kind |-> kind, op |-> op, id |-> id,
   rows |-> rows]

ProjectStatus(u, id) ==
  IF ProjectById(id) = {} THEN 404
  ELSE IF AccessDenied(role[u], ProjectOwner(id), u) THEN 403
  ELSE 200

TaskStatus(u, id) ==
  IF TaskById(id) = {} THEN 404
  ELSE IF AccessDenied(role[u], TaskOwner(id), u) THEN 403
  ELSE 200

TransactionStatus(u, id) ==
  IF TransactionById(id) = {} THEN 404
  ELSE IF AccessDenied(role[u], TransactionOwner(id), u) THEN 403
  ELSE 200

\* GET /api/projects
GetProjects(u) ==
  /\ Authenticated(u)
  /\ response' = Reply(200, u, "projects", "list", NULL,
                       {p.id : p \in {p \in projects :
                                        role[u] = "admin" \/ p.user_id = u}})
  /\ UNCHANGED <<projects, tasks, transactions, serial>>
  /\ UNCHANGED <<payVars, calls>>

\* GET /api/projects/:id
GetProject(u, id) ==
  /\ Authenticated(u)
  /\ LET status == ProjectStatus(u, id)
     IN response' = Reply(status, u, "projects", "get", id,
                          IF status = 200 THEN {id} ELSE {})
  /\ UNCHANGED <<projects, tasks, transactions, serial>>
  /\ UNCHANGED <<payVars, calls>>

\* POST /api/projects
PostProject(u, name) ==
  /\ Authenticated(u)
  /\ serial.projects < MaxProjects
  /\ LET id == serial.projects + 1
     IN /\ projects' = projects \cup
                         {[id |-> id, user_id |-> u, project_name |-> name,
                           total_income |-> 0, total_expense |-> 0]}
        /\ serial' = [serial EXCEPT !.projects = id]
        /\ response' = Reply(201, u, "projects", "post", NULL, {id})
  /\ UNCHANGED <<tasks, transactions>>
  /\ UNCHANGED <<payVars, calls>>

\* PUT /api/projects/:id
PutProject(u, id, name) ==
  /\ Authenticated(u)
  /\ LET status == ProjectStatus(u, id)
     IN /\ response' = Reply(status, u, "projects", "put", id,
                             IF status = 200 THEN {id} ELSE {})
        /\ projects' = IF status = 200
                       THEN {IF p.id = id THEN [p EXCEPT !.project_name = name]
                             ELSE p : p \in projects}
                       ELSE projects
  /\ UNCHANGED <<tasks, transactions, serial>>
  /\ UNCHANGED <<payVars, calls>>

\* DELETE /api/projects/:id; tasks and transactions reference the project
\* ON DELETE CASCADE
DeleteProject(u, id) ==
  /\ Authenticated(u)
  /\ LET status == ProjectStatus(u, id)
     IN /\ response' = Reply(status, u, "projects", "delete", id, {})
        /\ IF status = 200
           THEN /\ projects' = {p \in projects : p.id # id}
                /\ tasks' = {t \in tasks : t.project_id # id}
                /\ transactions' = {x \in transactions : x.project_id # id}
           ELSE UNCHANGED <<projects, tasks, transactions>>
  /\ UNCHANGED serial
  /\ UNCHANGED <<payVars, calls>>

\* GET /api/tasks[?project_id=]
GetTasks(u, projectId) ==
  /\ Authenticated(u)
  /\ response' =
       IF projectId # NULL
       THEN IF ~checkProjectAccess(projectId, u, role[u])
            THEN Reply(403, u, "tasks", "list", projectId, {})
            ELSE Reply(200, u, "tasks", "list", projectId,
                       {t.id : t \in {t \in tasks : t.project_id = projectId}})
       ELSE Reply(200, u, "tasks", "list", NULL,
                  {t.id : t \in {t \in tasks :
                                   role[u] = "admin" \/ TaskOwner(t.id) = u}})
  /\ UNCHANGED <<projects, tasks, transactions, serial>>
  /\ UNCHANGED <<payVars, calls>>

\* GET /api/tasks/:id
GetTask(u, id) ==
  /\ Authenticated(u)
  /\ LET status == TaskStatus(u, id)
     IN response' = Reply(status, u, "tasks", "get", id,
                          IF status = 200 THEN {id} ELSE {})
  /\ UNCHANGED <<projects, tasks, transactions, serial>>
  /\ UNCHANGED <<payVars, calls>>

\* POST /api/tasks
PostTask(u, projectId, type, cost) ==
  /\ Authenticated(u)
  /\ serial.tasks < MaxTasks
  /\ IF ~checkProjectAccess(projectId, u, role[u])
     THEN /\ response' = Reply(403, u, "tasks", "post", projectId, {})
          /\ UNCHANGED <<projects, tasks, serial>>
     ELSE LET id == serial.tasks + 1
              inserted == tasks \cup {[id |-> id, project_id |-> projectId,
                                       type |-> type, cost |-> cost]}
          IN /\ tasks' = inserted
             /\ serial' = [serial EXCEPT !.tasks = id]
             /\ projects' = updateProjectTotals(projects, inserted,
                                                transactions, projectId)
             /\ response' = Reply(201, u, "tasks", "post", projectId, {id})
  /\ UNCHANGED transactions
  /\ UNCHANGED <<payVars, calls>>

\* PUT /api/tasks/:id
PutTask(u, id, type, cost) ==
  /\ Authenticated(u)
  /\ LET status == TaskStatus(u, id)
     IN /\ response' = Reply(status, u, "tasks", "put", id,
                             IF status = 200 THEN {id} ELSE {})
        /\ IF status = 200
           THEN LET projectId == (CHOOSE t \in tasks : t.id = id).project_id
                    updated == {IF t.id = id
                                THEN [t EXCEPT !.type = type, !.cost = cost]
                                ELSE t : t \in tasks}
                IN /\ tasks' = updated
                   /\ projects' = updateProjectTotals(projects, updated,
                                                      transactions, projectId)
           ELSE UNCHANGED <<projects, tasks>>
  /\ UNCHANGED <<transactions, serial>>
  /\ UNCHANGED <<payVars, calls>>

\* DELETE /api/tasks/:id
DeleteTask(u, id) ==
  /\ Authenticated(u)
  /\ LET status == TaskStatus(u, id)
     IN /\ response' = Reply(status, u, "tasks", "delete", id, {})
        /\ IF status = 200
           THEN LET projectId == (CHOOSE t \in tasks : t.id = id).project_id
                    remaining == {t \in tasks : t.id # id}
                IN /\ tasks' = remaining
                   /\ projects' = updateProjectTotals(projects, remaining,
                                                      transactions, projectId)
           ELSE UNCHANGED <<projects, tasks>>
  /\ UNCHANGED <<transactions, serial>>
  /\ UNCHANGED <<payVars, calls>>

\* GET /api/transactions[?project_id=]
GetTransactions(u, projectId) ==
  /\ Authenticated(u)
  /\ response' =
       IF projectId # NULL
       THEN IF ~checkProjectAccess(projectId, u, role[u])
            THEN Reply(403, u, "transactions", "list", projectId, {})
            ELSE Reply(200, u, "transactions", "list", projectId,
                       {x.id : x \in {x \in transactions :
                                        x.project_id = projectId}})
       ELSE Reply(200, u, "transactions", "list", NULL,
                  {x.id : x \in {x \in transactions :
                                   role[u] = "admin"
                                   \/ TransactionOwner(x.id) = u}})
  /\ UNCHANGED <<projects, tasks, transactions, serial>>
  /\ UNCHANGED <<payVars, calls>>

\* GET /api/transactions/:id
GetTransaction(u, id) ==
  /\ Authenticated(u)
  /\ LET status == TransactionStatus(u, id)
     IN response' = Reply(status, u, "transactions", "get", id,
                          IF status = 200 THEN {id} ELSE {})
  /\ UNCHANGED <<projects, tasks, transactions, serial>>
  /\ UNCHANGED <<payVars, calls>>

\* POST /api/transactions
PostTransaction(u, projectId, type, amount) ==
  /\ Authenticated(u)
  /\ serial.transactions < MaxTransactions
  /\ IF ~checkProjectAccess(projectId, u, role[u])
     THEN /\ response' = Reply(403, u, "transactions", "post", projectId, {})
          /\ UNCHANGED <<projects, transactions, serial>>
     ELSE LET id == serial.transactions + 1
              inserted == transactions \cup
                            {[id |-> id, project_id |-> projectId,
                              type |-> type, amount |-> amount]}
          IN /\ transactions' = inserted
             /\ serial' = [serial EXCEPT !.transactions = id]
             /\ projects' = updateProjectTotals(projects, tasks, inserted,
                                                projectId)
             /\ response' = Reply(201, u, "transactions", "post", projectId,
                                  {id})
  /\ UNCHANGED tasks
  /\ UNCHANGED <<payVars, calls>>

\* PUT /api/transactions/:id
PutTransaction(u, id, type, amount) ==
  /\ Authenticated(u)
  /\ LET status == TransactionStatus(u, id)
     IN /\ response' = Reply(status, u, "transactions", "put", id,
                             IF status = 200 THEN {id} ELSE {})
        /\ IF status = 200
           THEN LET projectId ==
                      (CHOOSE x \in transactions : x.id = id).project_id
                    updated == {IF x.id = id
                                THEN [x EXCEPT !.type = type, !.amount = amount]
                                ELSE x : x \in transactions}
                IN /\ transactions' = updated
                   /\ projects' = updateProjectTotals(projects, tasks, updated,
                                                      projectId)
           ELSE UNCHANGED <<projects, transactions>>
  /\ UNCHANGED <<tasks, serial>>
  /\ UNCHANGED <<payVars, calls>>

\* DELETE /api/transactions/:id
DeleteTransaction(u, id) ==
  /\ Authenticated(u)
  /\ LET status == TransactionStatus(u, id)
     IN /\ response' = Reply(status, u, "transactions", "delete", id, {})
        /\ IF status = 200
           THEN LET projectId ==
                      (CHOOSE x \in transactions : x.id = id).project_id
                    remaining == {x \in transactions : x.id # id}
                IN /\ transactions' = remaining
                   /\ projects' = updateProjectTotals(projects, tasks,
                                                      remaining, projectId)
           ELSE UNCHANGED <<projects, transactions>>
  /\ UNCHANGED <<tasks, serial>>
  /\ UNCHANGED <<payVars, calls>>

ProjectRequest ==
  \/ \E u \in Users : GetProjects(u)
  \/ \E u \in Users, id \in ProjectIds : GetProject(u, id)
  \/ \E u \in Users, name \in ProjectNames : PostProject(u, name)
  \/ \E u \in Users, id \in ProjectIds, name \in ProjectNames :
       PutProject(u, id, name)
  \/ \E u \in Users, id \in ProjectIds : DeleteProject(u, id)

TaskRequest ==
  \/ \E u \in Users, projectId \in ProjectIds \cup {NULL} :
       GetTasks(u, projectId)
  \/ \E u \in Users, id \in TaskIds : GetTask(u, id)
  \/ \E u \in Users, projectId \in ProjectIds, type \in Types,
        cost \in WorkAmounts : PostTask(u, projectId, type, cost)
  \/ \E u \in Users, id \in TaskIds, type \in Types, cost \in WorkAmounts :
       PutTask(u, id, type, cost)
  \/ \E u \in Users, id \in TaskIds : DeleteTask(u, id)

TransactionRequest ==
  \/ \E u \in Users, projectId \in ProjectIds \cup {NULL} :
       GetTransactions(u, projectId)
  \/ \E u \in Users, id \in TransactionIds : GetTransaction(u, id)
  \/ \E u \in Users, projectId \in ProjectIds, type \in Types,
        amount \in WorkAmounts : PostTransaction(u, projectId, type, amount)
  \/ \E u \in Users, id \in TransactionIds, type \in Types,
        amount \in WorkAmounts : PutTransaction(u, id, type, amount)
  \/ \E u \in Users, id \in TransactionIds : DeleteTransaction(u, id)

\* the two staff users have paid this month and pass the gate
InitWork ==
  /\ now \in StartTimes
  /\ tz = 0
  /\ approved = [u \in Users |-> TRUE]
  /\ role = [u \in Users |-> IF u = 1 THEN "admin" ELSE "staff"]
  /\ payments = {NewRow(u - 1, u, MonthlyFee, FirstOfMonthStr(now), "paid",
                        DefaultMethod, now) : u \in {2, 3}}
  /\ nextId = 3
  /\ gate = NoGate
  /\ req = NoReq
  /\ posts = 0
  /\ edits = 0
  /\ advances = 0
  /\ batch = [b \in Batches |-> IdleRun]
  /\ runs = 0
  /\ failures = 0
  /\ projects = {}
  /\ tasks = {}
  /\ transactions = {}
  /\ serial = NoSerial
  /\ response = NoResponse
  /\ calls = [c \in Calls |-> IdleCall]
  /\ registered = Users
  /\ upcomingBlockMails = [u \in Users |-> 0]

\* ------------------------------------------------------------------------
\* Transaction requests step by step: the handler up to its write, then
\* updateProjectTotals query by query; requests in progress interleave at
\* every await
\* ------------------------------------------------------------------------
\* SELECT COALESCE(SUM(amount), 0) FROM transactions
\*   WHERE project_id = $1 AND type = <type>
TransactionsTotal(xs, projectId, type) ==
  SumAmounts({[id |-> x.id, amount |-> x.amount] :
                x \in {x \in xs : x.project_id = projectId /\ x.type = type}})

\* SELECT COALESCE(SUM(cost), 0) FROM tasks
\*   WHERE project_id = $1 AND type = <type>
TasksTotal(ts, projectId, type) ==
  SumAmounts({[id |-> t.id, amount |-> t.cost] :
                t \in {t \in ts : t.project_id = projectId /\ t.type = type}})

\* the call of updateProjectTotals(projectId) begins; reply is what the
\* handler answers after it
TotalsCall(projectId, reply) ==
  [pc |-> "incomeTransactions", projectId |-> projectId, reply |-> reply,
   incomeTransactions |-> 0, expenseTransactions |-> 0,
   incomeTasks |-> 0, expenseTasks |-> 0]

PostTransactionStart(c, u, projectId, type, amount) ==
  /\ calls[c].pc = "idle"
  /\ Authenticated(u)
  /\ serial.transactions < MaxTransactions
  /\ IF ~checkProjectAccess(projectId, u, role[u])
     THEN /\ response' = Reply(403, u, "transactions", "post", projectId, {})
          /\ UNCHANGED <<transactions, serial, calls>>
     ELSE LET id == serial.transactions + 1
          IN /\ transactions' = transactions \cup
                                  {[id |-> id, project_id |-> projectId,
                                    type |-> type, amount |-> amount]}
             /\ serial' = [serial EXCEPT !.transactions = id]
             /\ calls' = [calls EXCEPT ![c] =
                            TotalsCall(projectId,
                                       Reply(201, u, "transactions", "post",
                                             projectId, {id}))]
             /\ UNCHANGED response
  /\ UNCHANGED <<projects, tasks>>
  /\ UNCHANGED payVars

PutTransactionStart(c, u, id, type, amount) ==
  /\ calls[c].pc = "idle"
  /\ Authenticated(u)
  /\ LET status == TransactionStatus(u, id)
     IN IF status = 200
        THEN /\ transactions' = {IF x.id = id
                                 THEN [x EXCEPT !.type = type, !.amount = amount]
                                 ELSE x : x \in transactions}
             /\ calls' = [calls EXCEPT ![c] =
                            TotalsCall((CHOOSE x \in transactions :
                                          x.id = id).project_id,
                                       Reply(200, u, "transactions", "put", id,
                                             {id}))]
             /\ UNCHANGED response
        ELSE /\ response' = Reply(status, u, "transactions", "put", id, {})
             /\ UNCHANGED <<transactions, calls>>
  /\ UNCHANGED <<projects, tasks, serial>>
  /\ UNCHANGED payVars

DeleteTransactionStart(c, u, id) ==
  /\ calls[c].pc = "idle"
  /\ Authenticated(u)
  /\ LET status == TransactionStatus(u, id)
     IN IF status = 200
        THEN /\ transactions' = {x \in transactions : x.id # id}
             /\ calls' = [calls EXCEPT ![c] =
                            TotalsCall((CHOOSE x \in transactions :
                                          x.id = id).project_id,
                                       Reply(200, u, "transactions", "delete",
                                             id, {}))]
             /\ UNCHANGED response
        ELSE /\ response' = Reply(status, u, "transactions", "delete", id, {})
             /\ UNCHANGED <<transactions, calls>>
  /\ UNCHANGED <<projects, tasks, serial>>
  /\ UNCHANGED payVars

\* one of the four SELECTs of updateProjectTotals
TotalsSelect(c) ==
  /\ calls[c].pc \in {"incomeTransactions", "expenseTransactions",
                      "incomeTasks", "expenseTasks"}
  /\ LET r == calls[c]
     IN calls' = [calls EXCEPT ![c] =
          CASE r.pc = "incomeTransactions" ->
                 [r EXCEPT !.incomeTransactions =
                             TransactionsTotal(transactions, r.projectId, "income"),
                           !.pc = "expenseTransactions"]
            [] r.pc = "expenseTransactions" ->
                 [r EXCEPT !.expenseTransactions =
                             TransactionsTotal(transactions, r.projectId, "expense"),
                           !.pc = "incomeTasks"]
            [] r.pc = "incomeTasks" ->
                 [r EXCEPT !.incomeTasks =
                             TasksTotal(tasks, r.projectId, "income"),
                           !.pc = "expenseTasks"]
            [] r.pc = "expenseTasks" ->
                 [r EXCEPT !.expenseTasks =
                             TasksTotal(tasks, r.projectId, "expense"),
                           !.pc = "update"]]
  /\ UNCHANGED <<projects, tasks, transactions, serial, response>>
  /\ UNCHANGED payVars

\* UPDATE projects SET total_income = $1, total_expense = $2 WHERE id = $3,
\* then the handler's response
TotalsUpdate(c) ==
  /\ calls[c].pc = "update"
  /\ LET r == calls[c]
     IN /\ projects' = {IF p.id = r.projectId
                        THEN [p EXCEPT
                                !.total_income =
                                   r.incomeTransactions + r.incomeTasks,
                                !.total_expense =
                                   r.expenseTransactions + r.expenseTasks]
                        ELSE p : p \in projects}
        /\ response' = r.reply
  /\ calls' = [calls EXCEPT ![c] = IdleCall]
  /\ UNCHANGED <<tasks, transactions, serial>>
  /\ UNCHANGED payVars

TransactionStart(c) ==
  \/ \E u \in Users, projectId \in ProjectIds, type \in Types,
        amount \in WorkAmounts :
       PostTransactionStart(c, u, projectId, type, amount)
  \/ \E u \in Users, id \in TransactionIds, type \in Types,
        amount \in WorkAmounts : PutTransactionStart(c, u, id, type, amount)
  \/ \E u \in Users, id \in TransactionIds : DeleteTransactionStart(c, u, id)

\* staff user 2 owns project 1, which has no task and no transaction yet
InitTotals ==
  /\ now \in StartTimes
  /\ tz = 0
  /\ approved = [u \in Users |-> TRUE]
  /\ role = [u \in Users |-> IF u = 1 THEN "admin" ELSE "staff"]
  /\ payments = {NewRow(u - 1, u, MonthlyFee, FirstOfMonthStr(now), "paid",
                        DefaultMethod, now) : u \in {2, 3}}
  /\ nextId = 3
  /\ gate = NoGate
  /\ req = NoReq
  /\ posts = 0
  /\ edits = 0
  /\ advances = 0
  /\ batch = [b \in Batches |-> IdleRun]
  /\ runs = 0
  /\ failures = 0
  /\ projects = {[id |-> 1, user_id |-> 2, project_name |-> "a",
                  total_income |-> 0, total_expense |-> 0]}
  /\ tasks = {}
  /\ transactions = {}
  /\ serial = [NoSerial EXCEPT !.projects = 1]
  /\ response = NoResponse
  /\ calls = [c \in Calls |-> IdleCall]
  /\ registered = Users
  /\ upcomingBlockMails = [u \in Users |-> 0]

\* Handlers one at a time: batch runs, scheduled and on demand, and
\* administrative POST requests, as days pass
Next ==
  \/ Quiet /\ PostRequest
  \/ PostWrite
  \/ MailStep
  \/ ClockStep
  \/ \E b \in Batches : (Quiet /\ BatchBegin(b)) \/ BatchStep(b)

Spec == Init /\ [][Next]_vars

\* The access gate among the administrative payment requests, as days pass
NextGate ==
  \/ GateStep
  \/ LoginRequest
  \/ ApproveRequest
  \/ RejectRequest
  \/ PostRequest
  \/ PostWrite
  \/ PutRequest
  \/ PutWrite
  \/ MailStep
  \/ DeleteRequest
  \/ RoleRequest
  \/ ClockStep

SpecGate == Init /\ [][NextGate]_vars

\* Every interleaving of the two batch runs and the administrative POST
\* requests, with one staff user approved
NextRace ==
  \/ PostRequest
  \/ PostWrite
  \/ MailStep
  \/ ClockStep
  \/ \E b \in Batches : BatchBegin(b) \/ BatchStep(b)

SpecRace == InitPending /\ [][NextRace]_vars

\* The requests on projects, tasks and transactions, one at a time, by the
\* admin and the two staff users
NextWork ==
  \/ ProjectRequest
  \/ TaskRequest
  \/ TransactionRequest

SpecWork == InitWork /\ [][NextWork]_vars

\* Transaction requests of the admin and the staff users on one project,
\* two in progress at a time
NextTotals ==
  \E c \in Calls :
    \/ TransactionStart(c)
    \/ TotalsSelect(c)
    \/ TotalsUpdate(c)

SpecTotals == InitTotals /\ [][NextTotals]_vars

\* staff user 2 holds the paid record of the current month, confirmed half
\* a day ago
InitPaid ==
  /\ now \in StartTimes
  /\ tz \in TimeZones
  /\ approved = [u \in Users |-> TRUE]
  /\ role = [u \in Users |-> IF u = 1 THEN "admin" ELSE "staff"]
  /\ payments = {NewRow(1, 2, MonthlyFee, FirstOfMonthStr(now - 1), "paid",
                        DefaultMethod, now - 1)}
  /\ nextId = 2
  /\ gate = NoGate
  /\ req = NoReq
  /\ posts = 0
  /\ edits = 0
  /\ advances = 0
  /\ batch = [b \in Batches |-> IdleRun]
  /\ runs = 0
  /\ failures = 0
  /\ projects = {}
  /\ tasks = {}
  /\ transactions = {}
  /\ serial = NoSerial
  /\ response = NoResponse
  /\ calls = [c \in Calls |-> IdleCall]
  /\ registered = Users
  /\ upcomingBlockMails = [u \in Users |-> 0]

\* The administrative payment requests on a store that holds a paid record
NextAdmin ==
  \/ PostRequest
  \/ PostWrite
  \/ PutRequest
  \/ PutWrite
  \/ MailStep
  \/ DeleteRequest
  \/ DeleteUserRequest
  \/ ClockStep

SpecAdmin == InitPaid /\ [][NextAdmin]_vars

\* cron.schedule('0 9 * * *'): the next day's tick comes when the run of
\* the day has returned; runs counts the runs of the day
Tick ==
  /\ advances < MaxTicks
  /\ Quiet
  /\ runs = 1
  /\ now' = now + TicksPerDay
  /\ advances' = advances + 1
  /\ runs' = 0
  /\ gate' = NoGate
  /\ batch' = Disturbed(batch, {})
  /\ UNCHANGED <<tz, approved, role, payments, nextId, req, posts, edits,
                 failures, projects, tasks, transactions, serial, response,
                 calls, registered, upcomingBlockMails>>

\* staff user 2 has just paid for the current month; the scheduled run of
\* the day is still to come
InitDaily ==
  /\ now \in StartTimes
  /\ tz \in TimeZones
  /\ approved = [u \in Users |-> TRUE]
  /\ role = [u \in Users |-> IF u = 1 THEN "admin" ELSE "staff"]
  /\ payments = {NewRow(1, 2, MonthlyFee, FirstOfMonthStr(now), "paid",
                        DefaultMethod, now)}
  /\ nextId = 2
  /\ gate = NoGate
  /\ req = NoReq
  /\ posts = 0
  /\ edits = 0
  /\ advances = 0
  /\ batch = [b \in Batches |-> IdleRun]
  /\ runs = 0
  /\ failures = 0
  /\ projects = {}
  /\ tasks = {}
  /\ transactions = {}
  /\ serial = NoSerial
  /\ response = NoResponse
  /\ calls = [c \in Calls |-> IdleCall]
  /\ registered = Users
  /\ upcomingBlockMails = [u \in Users |-> 0]

\* One scheduled run per day, day after day, and no payment request
NextDaily ==
  \/ Tick
  \/ Quiet /\ BatchBegin("cron")
  \/ BatchStep("cron")

SpecDaily == InitDaily /\ [][NextDaily]_vars
\* A batch run among the administrative POST requests when user 2 holds a
\* paid record of the current month whose paid_at (25 January, 12:00 UTC)
\* is older than the lookback boundary
InitStale ==
  /\ now \in StartTimes
  /\ tz \in TimeZones
  /\ approved = [u \in Users |-> u # 3]
  /\ role = [u \in Users |-> IF u = 1 THEN "admin" ELSE "staff"]
  /\ payments = {NewRow(1, 2, MonthlyFee, FirstOfMonthStr(now), "paid",
                        DefaultMethod, ParseDate(55) + 1)}
  /\ nextId = 2
  /\ gate = NoGate
  /\ req = NoReq
  /\ posts = 0
  /\ edits = 0
  /\ advances = 0
  /\ batch = [b \in Batches |-> IdleRun]
  /\ runs = 0
  /\ failures = 0
  /\ projects = {}
  /\ tasks = {}
  /\ transactions = {}
  /\ serial = NoSerial
  /\ response = NoResponse
  /\ calls = [c \in Calls |-> IdleCall]
  /\ registered = Users
  /\ upcomingBlockMails = [u \in Users |-> 0]

SpecRevert == InitStale /\ [][NextRace]_vars

\* ------------------------------------------------------------------------
\* GET /api/payments/my-status
\* ------------------------------------------------------------------------
\* the data of the reply: the last paid record of any age, the block date
\* 30 days after it and the days left, counted from local midnight of today
MyStatus(store, u, t) ==
  LET lastPaidResult == LastPaidAny(store, u)
      paidAt == (CHOOSE row \in lastPaidResult : TRUE).paid_at
      daysUntilBlock ==
        IF lastPaidResult # {}
        THEN IF DaysUntilBlock(paidAt, t) > 0 THEN DaysUntilBlock(paidAt, t)
             ELSE 0
        ELSE 0
  IN [status |-> IF daysUntilBlock > 0 THEN "active" ELSE "blocked",
      last_payment_at |-> IF lastPaidResult # {} THEN paidAt ELSE NULL,
      block_date |-> IF lastPaidResult # {}
                     THEN paidAt + BlockWindowDays * TicksPerDay ELSE NULL,
      days_until_block |-> daysUntilBlock]

\* the route runs behind authenticate
GetMyStatus(u) ==
  /\ Authenticated(u)
  /\ response' = Reply(200, u, "my-status", "get", NULL,
                       MyStatus(payments, u, now))
  /\ UNCHANGED <<projects, tasks, transactions, serial>>
  /\ UNCHANGED <<payVars, calls>>

\* user 2 holds the January record, confirmed on 27 January at 12:00 UTC;
\* it is 27 February, 12:00 UTC
InitJanuary ==
  /\ now \in StartTimes
  /\ tz \in TimeZones
  /\ approved = [u \in Users |-> TRUE]
  /\ role = [u \in Users |-> IF u = 1 THEN "admin" ELSE "staff"]
  /\ payments = {NewRow(1, 2, MonthlyFee, FirstOfMonthStr(ParseDate(57) + 1),
                        "paid", DefaultMethod, ParseDate(57) + 1)}
  /\ nextId = 2
  /\ gate = NoGate
  /\ req = NoReq
  /\ posts = 0
  /\ edits = 0
  /\ advances = 0
  /\ batch = [b \in Batches |-> IdleRun]
  /\ runs = 0
  /\ failures = 0
  /\ projects = {}
  /\ tasks = {}
  /\ transactions = {}
  /\ serial = NoSerial
  /\ response = NoResponse
  /\ calls = [c \in Calls |-> IdleCall]
  /\ registered = Users
  /\ upcomingBlockMails = [u \in Users |-> 0]

\* The status route and the access gate among the administrative POST
\* requests, as days pass
NextStatus ==
  \/ \E u \in Users : GetMyStatus(u)
  \/ GateStep
  \/ PostRequest
  \/ PostWrite
  \/ MailStep
  \/ ClockStep

SpecStatus == InitJanuary /\ [][NextStatus]_vars

\* ------------------------------------------------------------------------
\* Properties
\* ------------------------------------------------------------------------
\* the gate has just answered an approved user presenting a valid token,
\* every query having succeeded
GateAnswered(u) ==
  /\ gate # NoGate
  /\ gate.user = u
  /\ gate.token = "good"
  /\ ~gate.failed
  /\ approved[u]

\* a paid record whose paid_at is no older than 30 days
ThirtyDayPaid(u) ==
  \E p \in payments : /\ p.user_id = u
                      /\ p.status = "paid"
                      /\ p.paid_at # NULL
                      /\ p.paid_at >= now - BlockWindowDays * TicksPerDay

\* C1: for an approved non-admin user with a valid token the gate allows the
\* request if and only if the user has a paid record with a non-null paid_at
\* no older than now minus 30 days (so a payment made 29 days ago is allowed
\* and one made 31 days ago is denied).
C1_GateThirtyDayWindow ==
  \A u \in Users :
    GateAnswered(u) /\ role[u] # "admin"
      => (gate.outcome = "next" <=> ThirtyDayPaid(u))

\* C2: the payment check never denies an admin: an approved admin with a
\* valid token is allowed whatever payment records exist for them.
C2_AdminNeverBlocked ==
  \A u \in Users :
    GateAnswered(u) /\ role[u] = "admin" => gate.outcome = "next"

\* an admin who holds a paid record older than the gate's window, and no
\* fresh one, has been let through
C2_Witness ==
  \E u \in Users :
    /\ GateAnswered(u)
    /\ role[u] = "admin"
    /\ gate.outcome = "next"
    /\ PaidSince(payments, u, 0) # {}
    /\ ~GatePaymentOk(payments, u, now)

C4_PaidIffPaidAt ==
  \A p \in payments : p.status = "paid" <=> p.paid_at # NULL

\* C5: a data-store failure while one user is evaluated does not stop the
\* batch: once the loop over the users has begun, the run is never ended by
\* a failure, so every later user is evaluated.
C5_FailureSkipsOneUser ==
  \A b \in Batches : batch[b].pc = "aborted" => batch[b].i = 0

\* the first calendar day of the month of t, and of the month before it
CurrentPeriodKey(t) == MonthStart[MonthIdx(LocalDay(t))]
PreviousPeriodKey(t) == MonthStart[MonthIdx(LocalDay(t)) - 1]
RecordsOf(u) == {p \in payments : p.user_id = u}
Evaluated(b) == batch[b].users[batch[b].i]

\* C6: a run that starts right after a complete, failure-free run, at the
\* same time and on the store that run left, creates no record; and when a
\* failure-free run is done every user it evaluated has a record for the
\* period key the run used.
C6_SecondRunCreatesNothing ==
  \A b \in Batches :
    /\ batch[b].second /\ batch[b].alone => batch[b].paymentsCreated = 0
    /\ batch[b].pc = "done" /\ batch[b].alone =>
         \A k \in DOMAIN batch[b].users :
           ForMonth(payments, batch[b].users[k], batch[b].currentMonthStr) # {}

\* C7: the pre-block step of a scheduled run counts one more pre-block
\* reminder exactly when the user's most recent paid record gives
\* days_until_block = 2, and none when the value differs or the user has
\* never paid.
C7_PreBlockExactlyAtTwoDays ==
  [][\A b \in Batches :
       batch[b].pc = "preblock" /\ failures' = failures =>
         LET due == \E row \in LastPaidAny(payments, Evaluated(b)) :
                      DaysUntilBlock(row.paid_at, now) = PreBlockDays
         IN batch'[b].upcomingBlockRemindersSent =
              batch[b].upcomingBlockRemindersSent + (IF due THEN 1 ELSE 0)]_vars

\* C8: the evaluation of a user who has no payment record adds exactly one
\* record, unpaid, of 15000, for the first day of the current month, and goes
\* on to send the due reminder.
C8_NoRecordCreatesUnpaid ==
  [][\A b \in Batches :
       /\ batch[b].pc = "mutate"
       /\ RecordsOf(Evaluated(b)) = {}
       /\ failures' = failures
       => /\ \E p \in payments' :
               /\ p \notin payments /\ payments' = payments \cup {p}
               /\ p.user_id = Evaluated(b)
               /\ p.status = "unpaid" /\ p.paid_at = NULL
               /\ p.amount = MonthlyFee
               /\ p.payment_month = CurrentPeriodKey(now)
          /\ batch'[b].pc = "send" /\ batch'[b].needsReminder]_vars

\* C9: the evaluation of a user whose only record is the previous month's,
\* paid 10 days ago, adds an unpaid record for the current month, flags the
\* due reminder and leaves the paid record as it was.
C9_PaidLastMonthCreatesCurrent ==
  [][\A b \in Batches : \A p \in payments :
       /\ batch[b].pc = "mutate"
       /\ RecordsOf(Evaluated(b)) = {p}
       /\ p.status = "paid" /\ p.paid_at = now - 10 * TicksPerDay
       /\ p.payment_month = PreviousPeriodKey(now)
       /\ failures' = failures
       => /\ \E q \in payments' :
               /\ q \notin payments /\ payments' = payments \cup {q}
               /\ q.user_id = Evaluated(b)
               /\ q.status = "unpaid" /\ q.paid_at = NULL
               /\ q.payment_month = CurrentPeriodKey(now)
          /\ batch'[b].pc = "send" /\ batch'[b].needsReminder]_vars

\* the run has just added the unpaid record of the current month next to
\* last month's record paid 10 days ago
C9_Witness ==
  \E b \in Batches : \E p, q \in payments :
    /\ batch[b].pc = "send" /\ batch[b].needsReminder
    /\ batch[b].recent = p /\ batch[b].existing = NoRow
    /\ RecordsOf(Evaluated(b)) = {p, q}
    /\ p.status = "paid" /\ p.paid_at = now - 10 * TicksPerDay
    /\ p.payment_month = PreviousPeriodKey(now)
    /\ q.status = "unpaid" /\ q.payment_month = CurrentPeriodKey(now)

\* C10: the evaluation of a user whose record for the current month is paid
\* with paid_at no older than now - 30 days writes nothing to the store and
\* neither flags nor sends the due reminder.
C10_FreshPaidUntouched ==
  [][\A b \in Batches : \A p \in payments :
       /\ batch[b].pc = "mutate"
       /\ p.user_id = Evaluated(b)
       /\ p.payment_month = CurrentPeriodKey(now)
       /\ p.status = "paid" /\ p.paid_at # NULL
       /\ p.paid_at >= now - BlockWindowDays * TicksPerDay
       => /\ payments' = payments
          /\ batch'[b].pc # "send" /\ ~batch'[b].needsReminder
          /\ batch'[b].dueCalls = batch[b].dueCalls]_vars

\* the responses by which authenticate denies a request
GateDenials ==
  {"401 no token", "401 invalid token", "403 not approved",
   "403 payment required"}
\* authenticate has just answered (and not the login route)
GateReplied == gate # NoGate /\ gate.token # "login"

\* C11: the gate fails closed: when a query of authenticate fails, next() is
\* not called, for admins and non-admins alike.
C11_GateFailsClosed ==
  GateReplied /\ gate.failed => gate.outcome # "next"

\* a query failed while an approved admin, who would otherwise pass, was
\* being checked, and the request was denied
C11_Witness ==
  /\ GateReplied /\ gate.failed
  /\ approved[gate.user] /\ role[gate.user] = "admin"
  /\ gate.outcome \in GateDenials

\* C12: each cause of denial has its own response (no or invalid token:
\* not authenticated; unapproved account: not approved; no fresh payment:
\* payment required), and a data-store failure during the check is answered
\* by none of these.
C12_DenialsDistinguishable ==
  GateReplied =>
    /\ gate.failed => gate.outcome \notin GateDenials
    /\ gate.token # "good" =>
         gate.outcome \in {"401 no token", "401 invalid token"}
    /\ gate.token = "good" /\ ~gate.failed /\ ~approved[gate.user] =>
         gate.outcome = "403 not approved"
    /\ gate.token = "good" /\ ~gate.failed /\ approved[gate.user]
         /\ gate.outcome # "next" => gate.outcome = "403 payment required"

\* C13: the gate is read-only: a step in which authenticate answers, allowing
\* or denying, changes no payment record and no user row.
C13_GateReadOnly ==
  [][gate' # NoGate /\ gate'.token # "login" =>
       /\ payments' = payments /\ nextId' = nextId
       /\ approved' = approved /\ role' = role]_vars

\* a staff user holding only a stale paid record has been denied, and the
\* record is still there as it was
C13_Witness ==
  /\ GateReplied
  /\ gate.outcome = "403 payment required"
  /\ \E p \in payments : /\ p.user_id = gate.user /\ p.status = "paid"
                         /\ p.paid_at < OneMonthAgo(now)

\* the run is inside its loop over the users
InProgress(b) ==
  batch[b].pc \in {"recent", "existing", "mutate", "send", "preblock"}

\* C14: batch runs are serialized: the scheduled run and the on-demand run
\* are never in progress at the same time.
C14_RunsSerialized ==
  ~(InProgress("cron") /\ InProgress("route"))

\* C15: every started run goes through all its users and reports its
\* counts, whichever call fails: no run is ended by an error leaving its
\* loop.
C15_RunCompletes ==
  \A b \in Batches : batch[b].pc # "aborted"

\* C16: a failed notification send leaves the payment store as it is, is
\* not counted as sent, is not sent again, and the run or request goes on:
\* after the due reminder the run moves to the next step of its loop, the
\* pre-block reminder that cannot be sent leaves its count and the store
\* alone, and the request whose status mail failed completes.
C16_SendFailureKeepsStore ==
  [][/\ \A b \in Batches :
          batch[b].pc = "send" =>
            /\ payments' = payments
            /\ batch'[b].pc \in {"preblock", "recent", "done"}
            /\ batch'[b].dueCalls = batch[b].dueCalls \cup {Evaluated(b)}
            /\ batch'[b].remindersSent =
                 batch[b].remindersSent
                   + (IF failures' = failures THEN 1 ELSE 0)
            /\ batch'[b].paymentsCreated = batch[b].paymentsCreated
            /\ batch'[b].paymentsUpdated = batch[b].paymentsUpdated
     /\ \A b \in Batches :
          batch[b].pc = "preblock" /\ failures' = failures =>
            /\ payments' = payments
            /\ batch'[b].pc \in {"recent", "done"}
     /\ req.op = "mail" => payments' = payments /\ req' = NoReq]_vars

\* the run has created a record, its due reminder has failed and was not
\* counted; the record is in the store and the run has moved on
C16_Witness ==
  \E b \in Batches :
    /\ batch[b].pc \in {"preblock", "recent", "done"}
    /\ batch[b].paymentsCreated = 1
    /\ batch[b].remindersSent = 0
    /\ \E u \in batch[b].dueCalls :
         \E p \in ForMonth(payments, u, batch[b].currentMonthStr) :
           p.status = "unpaid" /\ p.amount = MonthlyFee
    /\ failures = 1

\* C17: every payment record's payment_month is the first calendar day of
\* a month, in every time zone of the server.
C17_PaymentMonthIsFirstDay ==
  \A p \in payments : \E m \in DOMAIN MonthStart : p.payment_month = MonthStart[m]

\* C18: the users a batch run evaluates, and the users it sends a reminder
\* to, are approved and not admins; no payment record belongs to an admin,
\* whom POST /payments refuses, nor to the user who is not approved, whom
\* no run evaluates.
C18_OnlyApprovedStaffParticipate ==
  /\ \A b \in Batches :
       /\ \A k \in DOMAIN batch[b].users :
            approved[batch[b].users[k]] /\ role[batch[b].users[k]] # "admin"
       /\ \A u \in batch[b].dueCalls \cup batch[b].preCalls :
            approved[u] /\ role[u] # "admin"
  /\ \A p \in payments : approved[p.user_id] /\ role[p.user_id] # "admin"
  /\ req # NoReq /\ req.op = "post" => role[req.user_id] # "admin"

\* a run has completed and has created the record of the approved staff
\* user and reminded that user, a POST has been made, and the admin and the
\* user who is not approved have no record
C18_Witness ==
  /\ posts = 1 /\ req = NoReq
  /\ \E b \in Batches :
       /\ batch[b].pc = "done"
       /\ batch[b].paymentsCreated = 1
       /\ batch[b].dueCalls = {2}
  /\ RecordsOf(2) # {}
  /\ \E u \in Users : role[u] = "admin" /\ RecordsOf(u) = {}
  /\ \E u \in Users : ~approved[u] /\ RecordsOf(u) = {}

\* C19: a user who is not approved cannot log in and cannot pass the gate:
\* the login of such a user yields no token and is answered 403 when the
\* user is found, and the gate lets no request of such a user through,
\* whatever token it carries; this holds from the step that removes the
\* approval until the step that grants it again.
C19_UnapprovedShutOut ==
  /\ gate # NoGate /\ ~approved[gate.user] =>
       /\ gate.outcome \notin {"next", "200 token"}
       /\ gate.token = "login" /\ ~gate.failed =>
            gate.outcome = "403 pending approval"
       /\ gate.token = "good" /\ ~gate.failed =>
            gate.outcome = "403 not approved"
  /\ gate # NoGate /\ gate.outcome = "200 token" => approved[gate.user]

\* a staff user with a fresh payment, approved at the start, has lost the
\* approval and is denied by the gate with a valid token
C19_Witness ==
  /\ GateReplied
  /\ gate.token = "good" /\ ~gate.failed
  /\ role[gate.user] # "admin"
  /\ ~approved[gate.user]
  /\ GatePaymentOk(payments, gate.user, now)
  /\ gate.outcome = "403 not approved"

\* the owner of the project that a request addresses, by the id of the
\* project, task or transaction it names; 0 when there is no such row
RequestedOwner(r) ==
  IF r.id = NULL THEN 0
  ELSE IF r.kind = "projects" \/ r.op \in {"list", "post"}
       THEN IF ProjectById(r.id) = {} THEN 0 ELSE ProjectOwner(r.id)
  ELSE IF r.kind = "tasks"
       THEN IF TaskById(r.id) = {} THEN 0 ELSE TaskOwner(r.id)
  ELSE IF TransactionById(r.id) = {} THEN 0 ELSE TransactionOwner(r.id)

\* the owner of a row that a response returns
ReturnedOwner(kind, id) ==
  IF kind = "projects" THEN ProjectOwner(id)
  ELSE IF kind = "tasks" THEN TaskOwner(id)
  ELSE TransactionOwner(id)

\* C20: a request of a non-admin user that names a project, or a task or
\* transaction of a project, owned by another user is answered 403 and
\* leaves projects, tasks and transactions as they were; no response to a
\* non-admin user returns a row of another user's project; and a request
\* of an admin that names an existing row is never refused.
C20_OwnProjectsOnly ==
  [][response'.status # 0 =>
       LET r == response'
           owner == RequestedOwner(r)
       IN /\ role[r.actor] # "admin" /\ owner # 0 /\ owner # r.actor =>
               /\ r.status = 403
               /\ r.rows = {}
               /\ UNCHANGED <<projects, tasks, transactions, serial>>
          /\ role[r.actor] # "admin" /\ r.op \in {"list", "get", "put"} =>
               \A id \in r.rows : ReturnedOwner(r.kind, id) = r.actor
          /\ role[r.actor] = "admin" /\ owner # 0 => r.status \in {200, 201}
    ]_vars

\* a staff user has asked to delete a transaction of another staff user's
\* project and has been answered 403; the transaction is still there
C20_Witness ==
  /\ response.status = 403
  /\ response.kind = "transactions" /\ response.op = "delete"
  /\ role[response.actor] # "admin"
  /\ TransactionById(response.id) # {}
  /\ TransactionOwner(response.id) # response.actor
  /\ role[TransactionOwner(response.id)] # "admin"

\* C21: when no transaction request is in progress, every project's
\* total_income and total_expense are the sums of its stored income and
\* expense transactions plus its income and expense task costs.
C21_TotalsMatchStore ==
  (\A c \in Calls : calls[c].pc = "idle") =>
    \A p \in projects :
      /\ p.total_income = TransactionsTotal(transactions, p.id, "income")
                          + TasksTotal(tasks, p.id, "income")
      /\ p.total_expense = TransactionsTotal(transactions, p.id, "expense")
                           + TasksTotal(tasks, p.id, "expense")

\* C22: a step writes a new timestamp into paid_at of a record only when
\* the record's status goes from a status other than paid to paid, or when
\* the record is created as paid; setting paid on a record that is paid
\* leaves its paid_at as it was.
C22_PaidAtOnlyOnTransition ==
  [][\A q \in payments' :
       /\ \A p \in payments :
            p.id = q.id /\ q.paid_at # p.paid_at /\ q.paid_at # NULL
              => p.status # "paid" /\ q.status = "paid"
       /\ (\A p \in payments : p.id # q.id) /\ q.paid_at # NULL
              => q.status = "paid"]_vars

\* C23: a step in which a payment record disappears is the administrative
\* DELETE /payments/:id: it removes one record, leaves the others as they
\* were and removes no user.
C23_OnlyExplicitDelete ==
  [][(\E p \in payments : \A q \in payments' : q.id # p.id) =>
       /\ registered' = registered
       /\ edits' = edits + 1
       /\ payments' \subseteq payments
       /\ Cardinality(payments') = Cardinality(payments) - 1]_vars

C25_ReminderOnlyWithMutation ==
  [][\A b \in Batches :
       /\ batch[b].pc = "mutate"
       /\ batch[b].recent # NoRow
       /\ batch[b].recent.payment_month < batch[b].currentMonthStr
       /\ batch'[b].pc # "aborted"
       => /\ batch'[b].pc = "send" => payments' # payments
          /\ batch[b].existing # NoRow /\ batch[b].existing.status = "unpaid"
               => payments' = payments /\ batch'[b].pc # "send"]_vars

\* the payment cycle of user 2 in the daily schedule: it starts at the
\* paid_at of the start and ends 30 days later
CycleOver == /\ \A t \in StartTimes : now >= t + BlockWindowDays * TicksPerDay
             /\ runs = 1 /\ Quiet

\* C26: with one scheduled run per day and no new payment, the pre-block
\* reminder is delivered to the user on exactly one tick of the cycle that
\* starts at the user's most recent paid_at: never twice, and once by the
\* time the run of the cycle's last day has returned.
C26_PreBlockOncePerCycle ==
  /\ upcomingBlockMails[2] <= 1
  /\ CycleOver => upcomingBlockMails[2] = 1
\* C27: under any interleaving of a batch run with administrative payment
\* requests, a step of the evaluator that resets a record (status = unpaid,
\* paid_at = null) never applies to a record whose paid_at is inside the
\* lookback window at the moment the reset is written
C27_ResetNeverRevertsFreshPayment ==
  [][\A b \in Batches :
       batch[b].pc = "mutate" /\ batch'[b].pc # "mutate" =>
         \A p \in payments :
           (/\ p.status = "paid"
            /\ p.paid_at # NULL
            /\ [p EXCEPT !.status = "unpaid", !.paid_at = NULL] \in payments')
           => p.paid_at < OneMonthAgo(now)]_vars

\* C28: a batch run never changes any user's access-gate decision: for every
\* user, the gate's allow/deny answer at the time of the run computed on the
\* payment store before a write of the evaluator equals the answer computed
\* on the store after it
C28_BatchKeepsGateDecision ==
  [][\A b \in Batches :
       batch[b].pc = "mutate" /\ batch'[b].pc # "mutate" =>
         \A u \in Users :
           GatePaymentOk(payments', u, now) = GatePaymentOk(payments, u, now)]_vars

\* C29: when a batch run is done, no call of it having failed and nothing
\* else having touched the store, every approved non-admin user has a payment
\* record for the current period key, and no such record has status = paid
\* with a paid_at older than the lookback boundary
C29_RunLeavesCurrentRecords ==
  \A b \in Batches :
    batch[b].pc = "done" /\ batch[b].alone =>
      \A u \in BatchUsers :
        /\ ForMonth(payments, u, CurrentPeriodKey(now)) # {}
        /\ \A p \in ForMonth(payments, u, CurrentPeriodKey(now)) :
             ~(p.status = "paid" /\ p.paid_at # NULL
                 /\ p.paid_at < OneMonthAgo(now))

\* C30: a reply of GET /payments/my-status has days_until_block >= 0, and 0
\* when the user has never paid; its status is 'active' exactly when
\* days_until_block > 0; and when the gate allows a non-admin user at that
\* time the status reported for that user is 'active'
C30_StatusAgreesWithGate ==
  [][response' # response /\ response'.status = 200
       /\ response'.kind = "my-status" =>
       LET u == response'.actor
           data == response'.rows
       IN /\ data.days_until_block >= 0
          /\ PaidSince(payments, u, 0) = {} => data.days_until_block = 0
          /\ (data.status = "active") = (data.days_until_block > 0)
          /\ role[u] # "admin" /\ GatePaymentOk(payments, u, now)
               => data.status = "active"]_vars

====
